---- MODULE Spec2Model ----
(***************************************************************************)
(* Strength_envelopes: the notebook brittle_faults_p2.ipynb.               *)
(*                                                                         *)
(* Three specifications:                                                   *)
(*   Spec        one kernel session executing the notebook's two code      *)
(*               cells (imports and figure style; version report) in any   *)
(*               order, any number of times;                               *)
(*   SpecFormula the wet-fault strength formulas of the notebook's         *)
(*               markdown cell, in exact rational arithmetic;              *)
(*   SpecEval    the element-wise evaluation of a formula over a sampled   *)
(*               axis, as the design document describes it.                *)
(***************************************************************************)
EXTENDS Integers, Sequences, FiniteSets

VARIABLES
    installed,   \* libraries importable in the kernel's environment
    namespace,   \* names bound in the kernel's global namespace
    rcParams,    \* matplotlib's global settings (mpl.rcParams)
    outputs,     \* each code cell's "outputs" list
    history,     \* the session's executions: cell and outcome, in order
    params,      \* scalar parameters of the formulas (C0, mu, sigma_n, P_f, lambda)
    tau,         \* the strengths evaluated from params
    axis,        \* a sampled stress axis
    out,         \* the output sequence derived from axis
    pc           \* "defined": parameters set, nothing evaluated; "evaluated"

kernelVars == <<installed, namespace, rcParams, outputs, history>>
formulaVars == <<params, tau, pc>>
evalVars == <<axis, out>>
vars == <<installed, namespace, rcParams, outputs, history, params, tau, axis, out, pc>>

(***************************************************************************)
(* Bounds of the model.                                                    *)
(***************************************************************************)
MaxExec == 4        \* cell executions in one session
MaxCohesion == 1    \* C0 ranges over 0..MaxCohesion
MaxMuNum == 2       \* numerators of mu range over -1..MaxMuNum
MaxDen == 2         \* denominators of mu and lambda range over 1..MaxDen
MaxStress == 3      \* sigma_n ranges over -1..MaxStress, P_f over 0..MaxStress
MaxLen == 3         \* length of a sampled axis

(***************************************************************************)
(* The kernel session.                                                     *)
(***************************************************************************)
Libraries == {"numpy", "pandas", "matplotlib"}

\* pandas and matplotlib both require numpy
Environments ==
    {S \in SUBSET Libraries : (S \cap {"pandas", "matplotlib"} # {}) => "numpy" \in S}

CodeCells == {"ec05b3eb", "348cf7c3"}
ModuleNames == {"np", "pd", "plt", "mpl", "sys"}

Colors == {"white", "black", "f0f0f0"}
RcKeys == {"figure.facecolor", "axes.facecolor", "axes.edgecolor", "savefig.facecolor"}

\* the colour settings of matplotlib's 'fivethirtyeight' style sheet
fivethirtyeight == [k \in RcKeys |-> "f0f0f0"]

Stream(text) == [type |-> "stream", text |-> text]
Error(ename) == [type |-> "error", text |-> ename]

\* A cell's frame while it runs: namespace, settings, output so far, and the
\* exception that aborted it ("ok" while none has).
Frame(ns, rc) == [ns |-> ns, rc |-> rc, out |-> <<>>, err |-> "ok"]

\* import <lib> as <name>
Import(f, lib, name) ==
    IF f.err # "ok" THEN f
    ELSE IF lib \notin installed THEN [f EXCEPT !.err = "ModuleNotFoundError"]
    ELSE [f EXCEPT !.ns = @ \cup {name}]

\* mpl.style.use(style): the style's settings replace the current ones
StyleUse(f, style) ==
    IF f.err # "ok" THEN f
    ELSE IF "mpl" \notin f.ns THEN [f EXCEPT !.err = "NameError"]
    ELSE [f EXCEPT !.rc = [k \in RcKeys |-> style[k]]]

\* mpl.rcParams[key] = value
SetRcParam(f, key, value) ==
    IF f.err # "ok" THEN f
    ELSE IF "mpl" \notin f.ns THEN [f EXCEPT !.err = "NameError"]
    ELSE [f EXCEPT !.rc = [@ EXCEPT ![key] = value]]

\* print(label)
PrintStmt(f, label) ==
    IF f.err # "ok" THEN f
    ELSE [f EXCEPT !.out = Append(@, Stream(label))]

\* print(label, <name>.<attribute>)
PrintAttr(f, label, name) ==
    IF f.err # "ok" THEN f
    ELSE IF name \notin f.ns THEN [f EXCEPT !.err = "NameError"]
    ELSE [f EXCEPT !.out = Append(@, Stream(label))]

\* what the front end stores for a finished execution: the stream output and,
\* when an exception ended it, the error
Finish(f) ==
    [f EXCEPT !.out = IF f.err = "ok" THEN @ ELSE Append(@, Error(f.err))]

\* the same cell with style.use after the three overrides
ImportCellStyleLast(ns, rc) ==
    LET f1 == Import(Frame(ns, rc), "numpy", "np")
        f2 == Import(f1, "pandas", "pd")
        f3 == Import(f2, "matplotlib", "plt")
        f4 == Import(f3, "matplotlib", "mpl")
        f5 == SetRcParam(f4, "figure.facecolor", "white")
        f6 == SetRcParam(f5, "axes.facecolor", "white")
        f7 == SetRcParam(f6, "axes.edgecolor", "white")
        f8 == StyleUse(f7, fivethirtyeight)
    IN  Finish(f8)

\* code cell ec05b3eb: imports and figure style
ImportCell(ns, rc) ==
    LET f1 == Import(Frame(ns, rc), "numpy", "np")
        f2 == Import(f1, "pandas", "pd")
        f3 == Import(f2, "matplotlib", "plt")
        f4 == Import(f3, "matplotlib", "mpl")
        f5 == StyleUse(f4, fivethirtyeight)
        f6 == SetRcParam(f5, "figure.facecolor", "white")
        f7 == SetRcParam(f6, "axes.facecolor", "white")
        f8 == SetRcParam(f7, "axes.edgecolor", "white")
    IN  Finish(f8)

\* the same cell reporting only the versions of numpy and pandas
VersionCellNoMatplotlib(ns, rc) ==
    LET f1 == [Frame(ns, rc) EXCEPT !.ns = @ \cup {"sys"}]
        f2 == PrintStmt(f1, "Notebook tested using:")
        f3 == PrintAttr(f2, "Python", "sys")
        f4 == PrintAttr(f3, "Numpy", "np")
        f5 == PrintAttr(f4, "Pandas", "pd")
    IN  Finish(f5)

\* the same cell with each line guarded: a failing line is skipped
VersionCellGuarded(ns, rc) ==
    LET Try(f, g) == IF g.err = "ok" THEN g ELSE f
        f1 == [Frame(ns, rc) EXCEPT !.ns = @ \cup {"sys"}]
        f2 == PrintStmt(f1, "Notebook tested using:")
        f3 == Try(f2, PrintAttr(f2, "Python", "sys"))
        f4 == Try(f3, PrintAttr(f3, "Numpy", "np"))
        f5 == Try(f4, PrintAttr(f4, "Matplotlib", "mpl"))
        f6 == Try(f5, PrintAttr(f5, "Pandas", "pd"))
    IN  Finish(f6)

\* code cell 348cf7c3: version report
VersionCell(ns, rc) ==
    LET f1 == [Frame(ns, rc) EXCEPT !.ns = @ \cup {"sys"}]
        f2 == PrintStmt(f1, "Notebook tested using:")
        f3 == PrintAttr(f2, "Python", "sys")
        f4 == PrintAttr(f3, "Numpy", "np")
        f5 == PrintAttr(f4, "Matplotlib", "mpl")
        f6 == PrintAttr(f5, "Pandas", "pd")
    IN  Finish(f6)

\* the kernel executes one cell: its bindings and settings persist, its
\* output replaces the cell's previous output
Execute(cell, f) ==
    /\ Len(history) < MaxExec
    /\ namespace' = f.ns
    /\ rcParams' = f.rc
    /\ outputs' = [outputs EXCEPT ![cell] = f.out]
    /\ history' = Append(history, [cell |-> cell, outcome |-> f.err])
    /\ UNCHANGED <<installed, formulaVars, evalVars>>

RunImportCell == Execute("ec05b3eb", ImportCell(namespace, rcParams))

RunVersionCell == Execute("348cf7c3", VersionCell(namespace, rcParams))

(***************************************************************************)
(* Exact rational arithmetic: a number is <<numerator, denominator>> in     *)
(* lowest terms with a positive denominator, so equal numbers are equal     *)
(* tuples.                                                                  *)
(***************************************************************************)
Abs(n) == IF n < 0 THEN -n ELSE n

RECURSIVE GCD(_, _)
GCD(a, b) == IF b = 0 THEN a ELSE GCD(b, a % b)

Rat(n, d) ==
    LET g == GCD(Abs(n), Abs(d))
        s == IF d < 0 THEN -1 ELSE 1
    IN  <<(s * n) \div g, (s * d) \div g>>

RAdd(x, y) == Rat(x[1] * y[2] + y[1] * x[2], x[2] * y[2])
RSub(x, y) == Rat(x[1] * y[2] - y[1] * x[2], x[2] * y[2])
RMul(x, y) == Rat(x[1] * y[1], x[2] * y[2])
RDiv(x, y) == Rat(x[1] * y[2], x[2] * y[1])
RLeq(x, y) == x[1] * y[2] <= y[1] * x[2]
RLess(x, y) == x[1] * y[2] < y[1] * x[2]
Int2Rat(n) == <<n, 1>>

(***************************************************************************)
(* The formulas of markdown cell a14a7d59.                                  *)
(***************************************************************************)
\* the lambda formulation with the factor (1 - lambda) written as lambda
TauLambdaNoComplement(C0, mu, sigma_n, lambda) ==
    RAdd(C0, RMul(RMul(mu, sigma_n), lambda))

\* the lambda formulation with the factor (1 - lambda) written as (1 + lambda)
TauLambdaPlus(C0, mu, sigma_n, lambda) ==
    RAdd(C0, RMul(RMul(mu, sigma_n), RAdd(Int2Rat(1), lambda)))

\* Coulomb's law for a normal stress sigma: tau = C0 + mu sigma
Coulomb(C0, mu, sigma) == RAdd(C0, RMul(mu, sigma))

\* tau = C0 + mu sigma_n^eff = C0 + mu (sigma_n - P_f)
TauEffective(C0, mu, sigma_n, P_f) ==
    RAdd(C0, RMul(mu, RSub(sigma_n, P_f)))

\* lambda = P_f / sigma_L
Lambda(P_f, sigma_L) == RDiv(P_f, sigma_L)

\* tau = C0 + mu sigma_n (1 - lambda)
TauLambda(C0, mu, sigma_n, lambda) ==
    RAdd(C0, RMul(RMul(mu, sigma_n), RSub(Int2Rat(1), lambda)))

Cohesions == {Int2Rat(n) : n \in 0..MaxCohesion}
Frictions == {Rat(n, d) : n \in -1..MaxMuNum, d \in 1..MaxDen}
Stresses == {Int2Rat(n) : n \in -1..MaxStress}
Pressures == {Int2Rat(n) : n \in 0..MaxStress}
Ratios == {Rat(n, d) : n \in 0..(MaxDen + 1), d \in 1..MaxDen}

\* every strength the notebook defines, for one choice of the parameters;
\* the ratio form takes sigma_L = sigma_n and is undefined for sigma_n = 0
Strengths(p) ==
    [coulomb   |-> Coulomb(p.C0, p.mu, p.sigma_n),
     effective |-> TauEffective(p.C0, p.mu, p.sigma_n, p.P_f),
     ratio     |-> IF p.sigma_n = Int2Rat(0) THEN "undefined"
                   ELSE TauLambda(p.C0, p.mu, p.sigma_n, Lambda(p.P_f, p.sigma_n)),
     lambda    |-> TauLambda(p.C0, p.mu, p.sigma_n, p.lambda)]

\* evaluate the formulas for the current parameters
Evaluate ==
    /\ pc = "defined"
    /\ tau' = Strengths(params)
    /\ pc' = "evaluated"
    /\ UNCHANGED <<params, kernelVars, evalVars>>

\* re-evaluate with another pore fluid pressure
ChangePorePressure ==
    /\ pc = "evaluated"
    /\ \E p \in Pressures :
        /\ params' = [params EXCEPT !.P_f = p]
        /\ tau' = Strengths(params')
    /\ UNCHANGED <<pc, kernelVars, evalVars>>

\* re-evaluate with another pore pressure ratio
ChangeLambda ==
    /\ pc = "evaluated"
    /\ \E l \in Ratios :
        /\ params' = [params EXCEPT !.lambda = l]
        /\ tau' = Strengths(params')
    /\ UNCHANGED <<pc, kernelVars, evalVars>>

(***************************************************************************)
(* Element-wise evaluation over a sampled axis.                             *)
(***************************************************************************)
\* an evaluation that pairs neighbouring samples, one element short
RECURSIVE MapStrengthPairs(_, _)
MapStrengthPairs(p, xs) ==
    IF Len(xs) <= 1 THEN <<>>
    ELSE <<TauLambda(p.C0, p.mu, xs[2], p.lambda)>> \o MapStrengthPairs(p, Tail(xs))

\* the formula applied to each sample of the axis in turn
RECURSIVE MapStrength(_, _)
MapStrength(p, xs) ==
    IF xs = <<>> THEN <<>>
    ELSE <<TauLambda(p.C0, p.mu, Head(xs), p.lambda)>> \o MapStrength(p, Tail(xs))

EvaluateAxis ==
    /\ pc = "defined"
    /\ out' = MapStrength(params, axis)
    /\ pc' = "evaluated"
    /\ UNCHANGED <<axis, params, tau, kernelVars>>

\* sample one more point of the axis; the sequence derived from the shorter
\* axis is discarded
ExtendAxis ==
    /\ pc = "evaluated"
    /\ Len(axis) < MaxLen
    /\ \E x \in Stresses : axis' = Append(axis, x)
    /\ out' = <<>>
    /\ pc' = "defined"
    /\ UNCHANGED <<params, tau, kernelVars>>

(***************************************************************************)
(* Specifications.                                                          *)
(***************************************************************************)
IdleFormula == [C0 |-> <<0, 1>>, mu |-> <<0, 1>>, sigma_n |-> <<0, 1>>,
                P_f |-> <<0, 1>>, lambda |-> <<0, 1>>]

NoStrengths == [coulomb |-> <<0, 1>>, effective |-> <<0, 1>>,
                ratio |-> "undefined", lambda |-> <<0, 1>>]

\* a fresh kernel with the notebook as stored: no name bound, no output
InitKernel ==
    /\ installed \in Environments
    /\ namespace = {}
    /\ rcParams \in [RcKeys -> Colors]
    /\ outputs = [c \in CodeCells |-> <<>>]
    /\ history = <<>>

IdleKernel ==
    /\ installed = Libraries
    /\ namespace = {}
    /\ rcParams = [k \in RcKeys |-> "white"]
    /\ outputs = [c \in CodeCells |-> <<>>]
    /\ history = <<>>

Init ==
    /\ InitKernel
    /\ params = IdleFormula
    /\ tau = NoStrengths
    /\ axis = <<>>
    /\ out = <<>>
    /\ pc = "defined"

Next == RunVersionCell \/ RunImportCell

Spec == Init /\ [][Next]_vars

InitFormula ==
    /\ IdleKernel
    /\ params \in [C0 : Cohesions, mu : Frictions, sigma_n : Stresses,
                   P_f : {Int2Rat(0)}, lambda : {Int2Rat(0)}]
    /\ tau = NoStrengths
    /\ axis = <<>>
    /\ out = <<>>
    /\ pc = "defined"

NextFormula == Evaluate \/ ChangePorePressure \/ ChangeLambda

SpecFormula == InitFormula /\ [][NextFormula]_vars

InitEval ==
    /\ IdleKernel
    /\ params \in [C0 : Cohesions, mu : {Rat(1, 2), Rat(-1, 1)}, sigma_n : {Int2Rat(0)},
                   P_f : {Int2Rat(0)}, lambda : {Rat(0, 1), Rat(1, 2)}]
    /\ tau = NoStrengths
    /\ axis = <<>>
    /\ out = <<>>
    /\ pc = "defined"

NextEval == EvaluateAxis \/ ExtendAxis

SpecEval == InitEval /\ [][NextEval]_vars

(***************************************************************************)
(* Properties of the formulas (SpecFormula).                                *)
(***************************************************************************)
Evaluated == pc = "evaluated"
Zero == Int2Rat(0)
One == Int2Rat(1)

\* C1: with lambda = 0 the pore-pressure formula tau = C0 + mu sigma_n (1 - lambda)
\* gives exactly the Coulomb value C0 + mu sigma_n, for every C0, mu and sigma_n.
C1_LambdaZeroIsCoulomb ==
    (Evaluated /\ params.lambda = Zero) => tau.lambda = tau.coulomb

C1_Witness ==
    /\ Evaluated
    /\ params.lambda = Zero
    /\ params.mu # Zero
    /\ params.sigma_n # Zero
    /\ params.C0 # Zero
    /\ tau.lambda = tau.coulomb
    /\ tau.lambda # params.C0

\* C2: with lambda = P_f / sigma_L and sigma_L = sigma_n # 0, the two
\* formulations agree: C0 + mu (sigma_n - P_f) = C0 + mu sigma_n (1 - lambda).
C2_FormulationsAgree ==
    (Evaluated /\ params.sigma_n # Zero) => tau.ratio = tau.effective

C2_Witness ==
    /\ Evaluated
    /\ params.sigma_n # Zero
    /\ params.mu # Zero
    /\ params.P_f # Zero
    /\ Lambda(params.P_f, params.sigma_n)[2] # 1
    /\ tau.ratio = tau.effective
    /\ tau.ratio # tau.coulomb

\* C7: for mu >= 0 the strength C0 + mu (sigma_n - P_f) does not increase when
\* P_f increases, and decreases strictly when mu > 0; for mu >= 0 and
\* sigma_n >= 0 the strength C0 + mu sigma_n (1 - lambda) does not increase
\* when lambda increases; and at lambda = 1 it equals C0.
C7_StrengthFallsWithPorePressure ==
    [][(Evaluated /\ pc' = "evaluated") =>
         /\ (RLeq(Zero, params.mu) /\ RLeq(params.P_f, params.P_f'))
               => RLeq(tau.effective', tau.effective)
         /\ (RLess(Zero, params.mu) /\ RLess(params.P_f, params.P_f'))
               => RLess(tau.effective', tau.effective)
         /\ (RLeq(Zero, params.mu) /\ RLeq(Zero, params.sigma_n)
               /\ RLeq(params.lambda, params.lambda'))
               => RLeq(tau.lambda', tau.lambda)
         /\ (params.lambda' = One => tau.lambda' = params.C0)]_vars

C7_Witness ==
    /\ Evaluated
    /\ RLess(Zero, params.mu)
    /\ RLess(Zero, params.sigma_n)
    /\ RLess(Zero, params.P_f)
    /\ RLess(tau.effective, tau.coulomb)
    /\ params.lambda = One
    /\ tau.lambda = params.C0
    /\ RLess(tau.lambda, tau.coulomb)

(***************************************************************************)
(* Properties of the element-wise evaluation (SpecEval).                    *)
(***************************************************************************)
\* C3: the derived output sequence is as long as the input axis, the empty
\* axis included, and its element i is the formula applied to element i of
\* the axis and the scalar parameters.
C3_OutputMatchesAxis ==
    Evaluated =>
        /\ Len(out) = Len(axis)
        /\ \A i \in 1..Len(axis) :
              out[i] = TauLambda(params.C0, params.mu, axis[i], params.lambda)

C3_Witness ==
    /\ Evaluated
    /\ Len(axis) = MaxLen
    /\ Len(out) = MaxLen
    /\ axis[1] # axis[2]
    /\ out[1] # out[2]

(***************************************************************************)
(* Properties of the kernel session (Spec).                                 *)
(***************************************************************************)
Ran(cell, outcome) == [cell |-> cell, outcome |-> outcome]

\* the import cell has completed among the first n executions
ImportCompletedWithin(n) ==
    \E j \in 1..n : history[j] = Ran("ec05b3eb", "ok")

ImportCompleted == ImportCompletedWithin(Len(history))

\* the last execution of the cell, 0 when it has not run
LastRun(cell) ==
    LET runs == {i \in 1..Len(history) : history[i].cell = cell}
    IN  IF runs = {} THEN 0 ELSE CHOOSE i \in runs : \A j \in runs : j <= i

\* a run of both code cells from top to bottom in a fresh kernel
RunAllDone == history = <<Ran("ec05b3eb", "ok"), Ran("348cf7c3", "ok")>>

DerivedSequenceComputed == namespace \ ModuleNames # {}

ChartRendered ==
    \E c \in CodeCells : \E i \in 1..Len(outputs[c]) :
        outputs[c][i].type = "display_data"

\* C5: a complete top-to-bottom run of brittle_faults_p2 ends with the
\* imports done, a derived output sequence computed and a chart rendered.
C5_RunAllEvaluatesAndPlots ==
    RunAllDone =>
        /\ {"np", "pd", "plt"} \subseteq namespace
        /\ DerivedSequenceComputed
        /\ ChartRendered

NumericLibraryErrors == {"FloatingPointError", "ValueError"}

\* C6 as stated: the only error a cell execution ends with is one raised by
\* the numeric library on an invalid domain input.
C6_OnlyNumericErrors ==
    \A i \in 1..Len(history) :
        history[i].outcome # "ok" => history[i].outcome \in NumericLibraryErrors

CompleteOutput(cell) ==
    IF cell = "ec05b3eb" THEN <<>>
    ELSE <<Stream("Notebook tested using:"), Stream("Python"), Stream("Numpy"),
           Stream("Matplotlib"), Stream("Pandas")>>

\* C6 amended: a cell execution either completes, with every statement run,
\* or fails with an error of the numeric library, a NameError or a
\* ModuleNotFoundError, and the error reaches the user uncaught: it ends the
\* cell and is the last item of the cell's output.
C6_ErrorsPropagateUncaught ==
    /\ \A i \in 1..Len(history) :
          history[i].outcome \in
              {"ok", "NameError", "ModuleNotFoundError"} \cup NumericLibraryErrors
    /\ \A c \in CodeCells :
          LET n == LastRun(c)
              o == outputs[c]
          IN  n # 0 =>
                /\ history[n].outcome = "ok" => o = CompleteOutput(c)
                /\ history[n].outcome # "ok" =>
                      /\ o # <<>>
                      /\ o[Len(o)] = Error(history[n].outcome)
                      /\ Len(o) - 1 <= Len(CompleteOutput(c))
                      /\ \A k \in 1..(Len(o) - 1) : o[k] = CompleteOutput(c)[k]

C6_Witness ==
    /\ Len(history) >= 3
    /\ history[1] = Ran("348cf7c3", "NameError")
    /\ history[2] = Ran("ec05b3eb", "ModuleNotFoundError")
    /\ history[3] = Ran("348cf7c3", "NameError")
    /\ outputs["ec05b3eb"] = <<Error("ModuleNotFoundError")>>
    /\ outputs["348cf7c3"][Len(outputs["348cf7c3"])] = Error("NameError")

\* C8: the version-report cell completes exactly when the import cell has
\* completed earlier in the session, whatever the order of executions; run
\* before any execution of the import cell it prints the header and the
\* Python version and then fails on an unbound name.
C8_VersionReportNeedsImports ==
    /\ \A i \in 1..Len(history) :
          history[i].cell = "348cf7c3" =>
              (history[i].outcome = "ok" <=> ImportCompletedWithin(i - 1))
    /\ (LastRun("348cf7c3") # 0 /\ LastRun("ec05b3eb") = 0) =>
          outputs["348cf7c3"] =
              <<Stream("Notebook tested using:"), Stream("Python"), Error("NameError")>>

C8_Witness ==
    /\ history = <<Ran("348cf7c3", "NameError"), Ran("ec05b3eb", "ok"),
                   Ran("348cf7c3", "ok")>>
    /\ outputs["348cf7c3"] = CompleteOutput("348cf7c3")

\* C9: once the import cell has completed, figure.facecolor, axes.facecolor
\* and axes.edgecolor are 'white', however often the import cell is run again
\* and whether or not the version-report cell runs.
C9_FaceAndEdgeColorsWhite ==
    ImportCompleted =>
        /\ rcParams["figure.facecolor"] = "white"
        /\ rcParams["axes.facecolor"] = "white"
        /\ rcParams["axes.edgecolor"] = "white"

C9_Witness ==
    /\ Len(history) >= 4
    /\ history[1] = Ran("ec05b3eb", "ok")
    /\ history[2] = Ran("348cf7c3", "ok")
    /\ history[3] = Ran("ec05b3eb", "ok")
    /\ history[4] = Ran("348cf7c3", "ok")
    /\ rcParams["savefig.facecolor"] = "f0f0f0"
    /\ rcParams["figure.facecolor"] = "white"
    /\ rcParams["axes.facecolor"] = "white"
    /\ rcParams["axes.edgecolor"] = "white"

====
